---- MODULE Spec2Model ----
(***************************************************************************)
(* Model of the scam-baiting honeypot responder.                           *)
(*   src/core/forensics.py  analyze_scam                                   *)
(*   src/core/agent.py      session_store, get_session, update_state       *)
(*   src/core/fake_data.py  generate_fake_data                             *)
(*   src/core/personas.py   get_random_persona                             *)
(*   src/utils/callback.py  send_guvi_callback                             *)
(*   src/main.py            handle_honeypot                                *)
(*                                                                         *)
(* Texts are strings; a character is a string of length one.  Floating     *)
(* point confidences are integers in thousandths (0.1 is 100); the one     *)
(* IEEE-754 double sum of the analyzer that is not the decimal sum below   *)
(* the clamp, 0.6 + 0.3 = 0.8999999999999999, is the value 899.            *)
(***************************************************************************)
EXTENDS Integers, Sequences, FiniteSets, TLC

(***************************************************************************)
(* Characters and strings                                                  *)
(***************************************************************************)
Ch(s, i) == SubSeq(s, i, i)

UpperAlpha == "ABCDEFGHIJKLMNOPQRSTUVWXYZ"
LowerAlpha == "abcdefghijklmnopqrstuvwxyz"
DigitChars == "0123456789"

CharsOf(s) == {Ch(s, i) : i \in 1..Len(s)}

UpperSet == CharsOf(UpperAlpha)
LowerSet == CharsOf(LowerAlpha)
DigitSet == CharsOf(DigitChars)

IsAlpha(c) == c \in UpperSet \/ c \in LowerSet
IsDigit(c) == c \in DigitSet
\* \w of the re module: letters, digits and the underscore
IsWordChar(c) == IsAlpha(c) \/ IsDigit(c) \/ c = "_"
\* whitespace of \s and of str.strip() within the alphabet of the model
IsSpace(c) == c = " "

LowerCh(c) ==
    IF c \in UpperSet
    THEN Ch(LowerAlpha, CHOOSE i \in 1..Len(UpperAlpha) : Ch(UpperAlpha, i) = c)
    ELSE c

\* str.lower() of s[lo..hi], by halves
RECURSIVE LowerRange(_, _, _)
LowerRange(s, lo, hi) ==
    IF lo > hi THEN ""
    ELSE IF lo = hi THEN LowerCh(Ch(s, lo))
    ELSE LET mid == (lo + hi) \div 2
         IN  LowerRange(s, lo, mid) \o LowerRange(s, mid + 1, hi)

\* str.lower()
Lower(s) == LowerRange(s, 1, Len(s))

\* s[i:].startswith(w), positions from 1
StartsAt(s, i, w) ==
    /\ i + Len(w) - 1 <= Len(s)
    /\ SubSeq(s, i, i + Len(w) - 1) = w

\* the Python test  w in s
Contains(s, w) == \E i \in 1..(Len(s) + 1) : StartsAt(s, i, w)

\* any(w in s for w in words)
AnyIn(words, s) == \E k \in 1..Len(words) : Contains(s, words[k])

\* length of the longest run of characters of class C starting at i
RunLen(C(_), s, i) ==
    LET stop == CHOOSE j \in i..(Len(s) + 1) :
                    /\ j > Len(s) \/ ~C(Ch(s, j))
                    /\ \A k \in i..(j - 1) : C(Ch(s, k))
    IN  IF i > Len(s) THEN 0 ELSE stop - i

Min(a, b) == IF a < b THEN a ELSE b
Max(a, b) == IF a > b THEN a ELSE b

(***************************************************************************)
(* The regular expressions of analyze_scam.  Each XxxEnd(s, i) is the      *)
(* index of the last character of the match that starts at i, 0 if the     *)
(* pattern does not match at i; all patterns match at least 2 characters.  *)
(***************************************************************************)
IsUpiLocal(c) == IsAlpha(c) \/ IsDigit(c) \/ c = "." \/ c = "-" \/ c = "_"

UpiLocalMax == 256
UpiDomainMax == 64

\* [a-zA-Z0-9.\-_]{2,256}@[a-zA-Z]{2,64}
UpiEnd(s, i) ==
    LET run == RunLen(IsUpiLocal, s, i)
        dom == Min(RunLen(IsAlpha, s, i + run + 1), UpiDomainMax)
    IN  IF /\ run >= 2
           /\ run <= UpiLocalMax
           /\ StartsAt(s, i + run, "@")
           /\ dom >= 2
        THEN i + run + dom
        ELSE 0

IsAmountChar(c) == IsDigit(c) \/ c = ","

\* (?:rs\.?|inr)\s*[\d,]+   with re.IGNORECASE
AmountEnd(s, i) ==
    LET low == Lower(s)
        afterMarker ==
            IF StartsAt(low, i, "rs")
            THEN (IF StartsAt(low, i + 2, ".") THEN i + 3 ELSE i + 2)
            ELSE IF StartsAt(low, i, "inr") THEN i + 3 ELSE 0
        afterSpace == afterMarker + RunLen(IsSpace, s, afterMarker)
        digits == RunLen(IsAmountChar, s, afterSpace)
    IN  IF afterMarker > 0 /\ digits >= 1
        THEN afterSpace + digits - 1
        ELSE 0

otp_request_words == <<"otp", "code", "pin", "password">>

\* \b before position i (between s[i-1] and s[i])
Boundary(s, i) ==
    LET before == i > 1 /\ i - 1 <= Len(s) /\ IsWordChar(Ch(s, i - 1))
        after == i >= 1 /\ i <= Len(s) /\ IsWordChar(Ch(s, i))
    IN  before # after

\* \b(otp|code|pin|password)\b   with re.IGNORECASE
OtpRequestEnd(s, i) ==
    LET low == Lower(s)
        hits == {k \in 1..Len(otp_request_words) :
                    /\ Boundary(s, i)
                    /\ StartsAt(low, i, otp_request_words[k])
                    /\ Boundary(s, i + Len(otp_request_words[k]))}
    IN  IF hits = {}
        THEN 0
        ELSE LET k == CHOOSE k \in hits : \A j \in hits : k <= j
             IN  i + Len(otp_request_words[k]) - 1

\* re.findall: the non-overlapping matches, left to right
RECURSIVE FindAllFrom(_, _, _)
FindAllFrom(End(_, _), s, i) ==
    LET starts == {j \in i..Len(s) : End(s, j) > 0}
    IN  IF starts = {}
        THEN << >>
        ELSE LET j == CHOOSE j \in starts : \A k \in starts : j <= k
                 e == End(s, j)
             IN  <<SubSeq(s, j, e)>> \o FindAllFrom(End, s, e + 1)

FindAll(End(_, _), s) == FindAllFrom(End, s, 1)

(***************************************************************************)
(* Forensic analyzer: src/core/forensics.py                                *)
(***************************************************************************)
urgency_words == <<"urgent", "immediately", "lapse", "block", "24 hours", "expires">>
greed_words == <<"winner", "lottery", "prize", "congratulations", "cashback", "refund", "credit">>
fear_words == <<"police", "cbi", "court", "arrest", "illegal", "suspend", "cyber">>
financial_words == <<"pay", "fee", "charges", "deposit", "transfer", "registration", "tax">>

\* confidences in thousandths
BaseConfidence == 100
UrgencyWeight == 300
GreedWeight == 400
FearWeight == 500
FinancialWeight == 500
CredentialWeight == 400
TechnicalBonus == 300
ConfidenceCap == 1000

\* confidence += w in IEEE-754 double arithmetic: 0.6 + 0.3 is
\* 0.8999999999999999; every other sum the analyzer can form below the cap
\* is the double nearest the decimal sum, and sums above the cap stay above
FAdd(c, w) == IF c = 600 /\ w = 300 THEN 899 ELSE c + w

\* analyze_scam without the clamp
analyze_scam_unclamped(text) ==
    LET text_lower == Lower(text)
        extracted == [upi |-> FindAll(UpiEnd, text),
                      amount |-> FindAll(AmountEnd, text),
                      otp_request |-> FindAll(OtpRequestEnd, text)]
        urgency == AnyIn(urgency_words, text_lower)
        greed == AnyIn(greed_words, text_lower)
        fear == AnyIn(fear_words, text_lower)
        financial == AnyIn(financial_words, text_lower)
        credential == extracted.otp_request # << >>
        technical == extracted.upi # << >> \/ extracted.amount # << >>
        c0 == BaseConfidence
        c1 == IF urgency THEN FAdd(c0, UrgencyWeight) ELSE c0
        c2 == IF greed THEN FAdd(c1, GreedWeight) ELSE c1
        c3 == IF fear THEN FAdd(c2, FearWeight) ELSE c2
        c4 == IF financial THEN FAdd(c3, FinancialWeight) ELSE c3
        c5 == IF credential THEN FAdd(c4, CredentialWeight) ELSE c4
        c6 == IF technical THEN FAdd(c5, TechnicalBonus) ELSE c5
        tactics == (IF urgency THEN <<"Urgency">> ELSE << >>)
                   \o (IF greed THEN <<"Greed">> ELSE << >>)
                   \o (IF fear THEN <<"Fear">> ELSE << >>)
                   \o (IF financial THEN <<"Financial Demand">> ELSE << >>)
                   \o (IF credential THEN <<"Credential Harvesting">> ELSE << >>)
    IN  [extracted |-> extracted,
         tactics |-> tactics,
         confidence |-> c6]

analyze_scam(text) ==
    LET text_lower == Lower(text)
        extracted == [upi |-> FindAll(UpiEnd, text),
                      amount |-> FindAll(AmountEnd, text),
                      otp_request |-> FindAll(OtpRequestEnd, text)]
        urgency == AnyIn(urgency_words, text_lower)
        greed == AnyIn(greed_words, text_lower)
        fear == AnyIn(fear_words, text_lower)
        financial == AnyIn(financial_words, text_lower)
        credential == extracted.otp_request # << >>
        technical == extracted.upi # << >> \/ extracted.amount # << >>
        c0 == BaseConfidence
        c1 == IF urgency THEN FAdd(c0, UrgencyWeight) ELSE c0
        c2 == IF greed THEN FAdd(c1, GreedWeight) ELSE c1
        c3 == IF fear THEN FAdd(c2, FearWeight) ELSE c2
        c4 == IF financial THEN FAdd(c3, FinancialWeight) ELSE c3
        c5 == IF credential THEN FAdd(c4, CredentialWeight) ELSE c4
        c6 == IF technical THEN FAdd(c5, TechnicalBonus) ELSE c5
        tactics == (IF urgency THEN <<"Urgency">> ELSE << >>)
                   \o (IF greed THEN <<"Greed">> ELSE << >>)
                   \o (IF fear THEN <<"Fear">> ELSE << >>)
                   \o (IF financial THEN <<"Financial Demand">> ELSE << >>)
                   \o (IF credential THEN <<"Credential Harvesting">> ELSE << >>)
    IN  [extracted |-> extracted,
         tactics |-> tactics,
         confidence |-> Min(c6, ConfidenceCap)]

\* the message texts the model sends
Texts ==
    {"ok I paid, please confirm",
     "urgent",
     "pay",
     "pincode",
     "you are the lottery winner, urgent",
     "registration fee Rs 500",
     "send otp 123456 now",
     "transfer to ravi.k@okaxis",
     "URGENT: your account will be blocked, pay Rs.5000 immediately or face legal action"}

\* analyze_scam of each text, evaluated once
Forensics == [t \in Texts |-> analyze_scam(t)]

(***************************************************************************)
(* Personas: src/core/personas.py                                          *)
(***************************************************************************)
\* random.choice(personas): any of the three
get_random_persona ==
    {[name |-> "Anitha", age |-> 65,
      tone |-> "Nervous, Tamil-English mix, uses 'Ayyo' and 'Kanna'",
      flaw |-> "Bad eyesight, types slowly, very gullible initially"],
     [name |-> "Ramesh", age |-> 50,
      tone |-> "Overconfident, Hindi-English mix, calls everyone 'Boss'",
      flaw |-> "Thinks he is smarter than the scammer, asks technical questions wrong"],
     [name |-> "Susan", age |-> 21,
      tone |-> "Polite student, scared of authority",
      flaw |-> "Afraid of police/legal action, apologizes constantly"]}

(***************************************************************************)
(* Deception generator: src/core/fake_data.py                              *)
(***************************************************************************)
DigitRunMin == 3
DigitRunMax == 5

\* \d{3,5}
DigitRunEnd(s, i) ==
    LET run == Min(RunLen(IsDigit, s, i), DigitRunMax)
    IN  IF run >= DigitRunMin THEN i + run - 1 ELSE 0

default_amounts == {"500", "1000", "2000"}

\* samples of ''.join(random.choices(ascii_uppercase + digits, k=12))
TransactionIds == {"A1B2C3D4E5F6", "ZZZZZZZZZZ99"}

\* samples of random.randint(100000, 999999), formatted
FakeOtps == {"100000", "999999"}

\* the set of strings generate_fake_data can return
generate_fake_data(context_text, data_type) ==
    IF data_type = "payment_proof"
    THEN LET amounts == FindAll(DigitRunEnd, context_text)
             choices == IF amounts # << >> THEN {amounts[1]} ELSE default_amounts
         IN  {"|| [FWD: SBI Alert] Rs." \o amount \o ".00 debited from a/c XXXXX8932 "
                \o "via UPI Ref " \o tid \o ". If not done by you, call 1800-SBI-FAIL. ||" :
                amount \in choices, tid \in TransactionIds}
    ELSE IF data_type = "otp"
    THEN {"|| Is this the code? " \o fake_otp \o " ||" : fake_otp \in FakeOtps}
    ELSE IF data_type = "battery_low"
    THEN {"|| [System] Battery Low (2%). Please charge device. ||"}
    ELSE {""}

\* generate_fake_data of each text, evaluated once
FakeData == [t \in Texts |-> [payment_proof |-> generate_fake_data(t, "payment_proof"),
                              otp |-> generate_fake_data(t, "otp")]]

(***************************************************************************)
(* Session state machine: src/core/agent.py                                *)
(***************************************************************************)
INIT == "INIT"
ENGAGING == "ENGAGING"
HOOKED == "HOOKED"
TRAPPED == "TRAPPED"
STALLING == "STALLING"
EXIT == "EXIT"

SessionState == {INIT, ENGAGING, HOOKED, TRAPPED, STALLING, EXIT}

\* Python's None
None == "None"

\* the record get_session stores for an unseen id
NewSession(persona) ==
    [state |-> INIT,
     persona |-> persona,
     messages_count |-> 0,
     scam_confidence |-> 0,
     extracted_data |-> [upi |-> << >>, bank |-> << >>, phone |-> << >>],
     callback_sent |-> FALSE,
     last_action |-> None,
     otp_attempts |-> 0]

\* get_session creating a new record for an id it has already seen
get_session_recreate(store, session_id) ==
    {NewSession(p) : p \in get_random_persona}

\* the records get_session can return: the stored one, or a new one with
\* any persona
get_session(store, session_id) ==
    IF session_id \in DOMAIN store
    THEN {store[session_id]}
    ELSE {NewSession(p) : p \in get_random_persona}

InSeq(x, seq) == \E k \in 1..Len(seq) : seq[k] = x

MoneyThreshold == 600
StallingCount == 6

has_money_talk(forensics_result) ==
    \/ forensics_result.extracted.amount # << >>
    \/ InSeq("Financial Demand", forensics_result.tactics)

\* update_state where rule 4 does not look at last_action
update_state_trap_unconditional(session, forensics_result) ==
    LET current_state == session.state
    IN  IF has_money_talk(forensics_result) /\ session.scam_confidence > MoneyThreshold
        THEN HOOKED
        ELSE IF current_state = INIT /\ session.scam_confidence > MoneyThreshold
        THEN ENGAGING
        ELSE IF current_state = ENGAGING /\ has_money_talk(forensics_result)
        THEN HOOKED
        ELSE IF current_state = HOOKED
        THEN TRAPPED
        ELSE IF current_state = TRAPPED /\ session.messages_count > StallingCount
        THEN STALLING
        ELSE current_state

\* update_state without the fast track (rule 1)
update_state_no_fast_track(session, forensics_result) ==
    LET current_state == session.state
    IN  IF current_state = INIT /\ session.scam_confidence > MoneyThreshold
        THEN ENGAGING
        ELSE IF current_state = ENGAGING /\ has_money_talk(forensics_result)
        THEN HOOKED
        ELSE IF current_state = HOOKED /\ session.last_action = "payment_proof"
        THEN TRAPPED
        ELSE IF current_state = TRAPPED /\ session.messages_count > StallingCount
        THEN STALLING
        ELSE current_state

\* update_state with a fast track that depends on the persona
update_state_by_persona(session, forensics_result) ==
    LET current_state == session.state
    IN  IF /\ has_money_talk(forensics_result)
           /\ session.scam_confidence > MoneyThreshold
           /\ session.persona.name # "Ramesh"
        THEN HOOKED
        ELSE IF current_state = INIT /\ session.scam_confidence > MoneyThreshold
        THEN ENGAGING
        ELSE IF current_state = ENGAGING /\ has_money_talk(forensics_result)
        THEN HOOKED
        ELSE IF current_state = HOOKED /\ session.last_action = "payment_proof"
        THEN TRAPPED
        ELSE IF current_state = TRAPPED /\ session.messages_count > StallingCount
        THEN STALLING
        ELSE current_state

\* update_state with rule 5 leading to EXIT
update_state_exit(session, forensics_result) ==
    LET current_state == session.state
    IN  IF has_money_talk(forensics_result) /\ session.scam_confidence > MoneyThreshold
        THEN HOOKED
        ELSE IF current_state = INIT /\ session.scam_confidence > MoneyThreshold
        THEN ENGAGING
        ELSE IF current_state = ENGAGING /\ has_money_talk(forensics_result)
        THEN HOOKED
        ELSE IF current_state = HOOKED /\ session.last_action = "payment_proof"
        THEN TRAPPED
        ELSE IF current_state = TRAPPED /\ session.messages_count > StallingCount
        THEN EXIT
        ELSE current_state

\* update_state with the thresholds of rules 1 and 2 met at 0.6 itself
update_state_at_threshold(session, forensics_result) ==
    LET current_state == session.state
    IN  IF has_money_talk(forensics_result) /\ session.scam_confidence >= MoneyThreshold
        THEN HOOKED
        ELSE IF current_state = INIT /\ session.scam_confidence >= MoneyThreshold
        THEN ENGAGING
        ELSE IF current_state = ENGAGING /\ has_money_talk(forensics_result)
        THEN HOOKED
        ELSE IF current_state = HOOKED /\ session.last_action = "payment_proof"
        THEN TRAPPED
        ELSE IF current_state = TRAPPED /\ session.messages_count > StallingCount
        THEN STALLING
        ELSE current_state

\* the new state; the caller stores it in session.state
update_state(session, forensics_result) ==
    LET current_state == session.state
    IN  IF has_money_talk(forensics_result) /\ session.scam_confidence > MoneyThreshold
        THEN HOOKED
        ELSE IF current_state = INIT /\ session.scam_confidence > MoneyThreshold
        THEN ENGAGING
        ELSE IF current_state = ENGAGING /\ has_money_talk(forensics_result)
        THEN HOOKED
        ELSE IF current_state = HOOKED /\ session.last_action = "payment_proof"
        THEN TRAPPED
        ELSE IF current_state = TRAPPED /\ session.messages_count > StallingCount
        THEN STALLING
        ELSE current_state

(***************************************************************************)
(* Reply formatting: src/main.py, step 8                                   *)
(***************************************************************************)
\* str.split("||") of s[i..]
RECURSIVE SplitFrom(_, _)
SplitFrom(s, i) ==
    LET seps == {j \in i..Len(s) : StartsAt(s, j, "||")}
    IN  IF seps = {}
        THEN <<SubSeq(s, i, Len(s))>>
        ELSE LET j == CHOOSE j \in seps : \A k \in seps : j <= k
             IN  <<SubSeq(s, i, j - 1)>> \o SplitFrom(s, j + 2)

Split(s) == SplitFrom(s, 1)

\* str.strip()
Strip(s) ==
    LET keep == {i \in 1..Len(s) : ~IsSpace(Ch(s, i))}
    IN  IF keep = {}
        THEN ""
        ELSE SubSeq(s, CHOOSE a \in keep : \A k \in keep : a <= k,
                       CHOOSE b \in keep : \A k \in keep : b >= k)

RECURSIVE StripAll(_)
StripAll(parts) ==
    IF parts = << >>
    THEN << >>
    ELSE (IF Strip(Head(parts)) # "" THEN <<Strip(Head(parts))>> ELSE << >>)
         \o StripAll(Tail(parts))

\* [m.strip() for m in ai_reply.split("||") if m.strip()]
messages_list(ai_reply) == StripAll(Split(ai_reply))

(***************************************************************************)
(* Generative backend: the loop of src/main.py, step 6                     *)
(***************************************************************************)
models_to_try == <<"gemini-2.5-flash", "gemini-exp-1206", "gemini-2.0-flash">>

\* response.text of a call that returns
BackendTexts == {"Ayyo kanna || which UPI?", " || ", ""}

\* str(e) of a call that raises
BackendErrors == {"429 RESOURCE_EXHAUSTED", "503 UNAVAILABLE"}

Outcomes ==
    {[kind |-> "text", text |-> t] : t \in BackendTexts}
    \cup {[kind |-> "raise", text |-> e] : e \in BackendErrors}

\* the loop going on to the next model after any exception
RECURSIVE TryModels_any_error(_)
TryModels_any_error(i) ==
    IF i > Len(models_to_try)
    THEN {<< >>}
    ELSE UNION {
           LET call == [model |-> models_to_try[i], outcome |-> o]
           IN  IF o.kind = "raise"
               THEN {<<call>> \o rest : rest \in TryModels_any_error(i + 1)}
               ELSE {<<call>>}
           : o \in Outcomes}

\* the traces of the loop from models_to_try[i]: one call per round, the
\* loop goes on to the next model only after an exception that has 429 in
\* its text
RECURSIVE TryModels(_)
TryModels(i) ==
    IF i > Len(models_to_try)
    THEN {<< >>}
    ELSE UNION {
           LET call == [model |-> models_to_try[i], outcome |-> o]
           IN  IF o.kind = "raise" /\ Contains(o.text, "429")
               THEN {<<call>> \o rest : rest \in TryModels(i + 1)}
               ELSE {<<call>>}
           : o \in Outcomes}

BackendRuns == TryModels(1)

fallback_reply == "Network bad... || Hello? Can you hear me?"

\* ai_reply after the loop and the fallback of a trace
ai_reply_of(run) ==
    LET last == IF run = << >> THEN [kind |-> "raise", text |-> ""]
                ELSE run[Len(run)].outcome
        ai_reply == IF last.kind = "text" THEN last.text ELSE ""
    IN  IF ai_reply = "" THEN fallback_reply ELSE ai_reply

(***************************************************************************)
(* The endpoint: src/main.py                                               *)
(***************************************************************************)
MY_SECRET_API_KEY == "VIT_Chennai_PowerHouse_2026"

\* the x-api-key header values the model sends (None: header absent)
ApiKeys == {MY_SECRET_API_KEY, "wrong-key", None}

\* the texts sent with a wrong or absent key
UnauthorizedTexts == {"pay"}

SessionIds == {"s1"}

\* bounds on what the model lets a session accumulate: messages handled,
\* payment handles collected, fake codes sent
MaxMessages == 7
MaxUpi == 2
MaxOtpAttempts == 2

\* bound on the requests handled while a scheduled report has not yet run
MaxOverlap == 1

scam_trigger_words == <<"pay", "send", "transfer", "deposit", "scan">>
otp_trigger_words == <<"otp", "code", "pin", "password">>

IgnoreThreshold == 400
OtpCount == 2
CallbackThreshold == 800
CallbackCount == 5

has_scam_trigger(text) == AnyIn(scam_trigger_words, Lower(text))
has_otp_trigger(text) == AnyIn(otp_trigger_words, Lower(text))

\* the two tests of each text, evaluated once
ScamTrigger == [t \in Texts |-> has_scam_trigger(t)]
OtpTrigger == [t \in Texts |-> has_otp_trigger(t)]

Range(seq) == {seq[k] : k \in 1..Len(seq)}

VARIABLES
    session_store,      \* session id -> session record, the ids seen so far
    request,            \* the last request delivered to the endpoint
    response,           \* what the endpoint answered to it
    calls,              \* the backend calls made while handling it
    background_tasks,   \* the reports scheduled and not yet run
    callback_log,       \* what send_guvi_callback printed, oldest first
    in_flight,          \* the requests the event loop holds, in order of arrival
    replay              \* the conversation replayed to the sessions of SpecReplay

vars == <<session_store, request, response, calls, background_tasks, callback_log,
          in_flight, replay>>

Init ==
    /\ session_store = << >>
    /\ request = [sessionId |-> None, text |-> "", x_api_key |-> None]
    /\ response = [status |-> None]
    /\ calls = << >>
    /\ background_tasks = << >>
    /\ callback_log = << >>
    /\ in_flight = << >>
    /\ replay = << >>

\* session_store[session_id] = session
Put(store, session_id, session) ==
    [id \in DOMAIN store \cup {session_id} |->
        IF id = session_id THEN session ELSE store[id]]

\* Inject with the payment proof given in any state
Inject_any_state(session, new_state, text, ai_reply) ==
    IF ScamTrigger[text]
    THEN {[session |-> [session EXCEPT !.last_action = "payment_proof"],
           ai_reply |-> ai_reply \o " " \o fake_proof] :
             fake_proof \in FakeData[text].payment_proof}
    ELSE IF OtpTrigger[text] /\ session.messages_count > OtpCount
    THEN {[session |-> [session EXCEPT !.otp_attempts = @ + 1,
                                       !.last_action = "fake_otp"],
           ai_reply |-> ai_reply \o " " \o fake_otp] :
             fake_otp \in FakeData[text].otp}
    ELSE {[session |-> session, ai_reply |-> ai_reply]}

\* Inject with the two triggers tested in the other order
Inject_otp_first(session, new_state, text, ai_reply) ==
    IF OtpTrigger[text] /\ session.messages_count > OtpCount
    THEN {[session |-> [session EXCEPT !.otp_attempts = @ + 1,
                                       !.last_action = "fake_otp"],
           ai_reply |-> ai_reply \o " " \o fake_otp] :
             fake_otp \in FakeData[text].otp}
    ELSE IF new_state = HOOKED /\ ScamTrigger[text]
    THEN {[session |-> [session EXCEPT !.last_action = "payment_proof"],
           ai_reply |-> ai_reply \o " " \o fake_proof] :
             fake_proof \in FakeData[text].payment_proof}
    ELSE {[session |-> session, ai_reply |-> ai_reply]}

\* step 7: the (session, ai_reply) pairs after the injection
Inject(session, new_state, text, ai_reply) ==
    IF new_state = HOOKED /\ ScamTrigger[text]
    THEN {[session |-> [session EXCEPT !.last_action = "payment_proof"],
           ai_reply |-> ai_reply \o " " \o fake_proof] :
             fake_proof \in FakeData[text].payment_proof}
    ELSE IF OtpTrigger[text] /\ session.messages_count > OtpCount
    THEN {[session |-> [session EXCEPT !.otp_attempts = @ + 1,
                                       !.last_action = "fake_otp"],
           ai_reply |-> ai_reply \o " " \o fake_otp] :
             fake_otp \in FakeData[text].otp}
    ELSE {[session |-> session, ai_reply |-> ai_reply]}

\* should_send_callback that does not look at callback_sent
should_send_callback_unguarded(session, new_state) ==
    /\ session.scam_confidence > CallbackThreshold
    /\ (new_state = TRAPPED \/ session.messages_count > CallbackCount)

\* should_send_callback without the message count
should_send_callback_trapped_only(session, new_state) ==
    /\ session.scam_confidence > CallbackThreshold
    /\ ~session.callback_sent
    /\ new_state = TRAPPED

should_send_callback(session, new_state) ==
    /\ session.scam_confidence > CallbackThreshold
    /\ ~session.callback_sent
    /\ (new_state = TRAPPED \/ session.messages_count > CallbackCount)

callback_data(sessionId, session, forensics, new_state) ==
    [sessionId |-> sessionId,
     scamDetected |-> TRUE,
     totalMessagesExchanged |-> session.messages_count,
     extractedIntelligence |->
        [upiIds |-> Range(session.extracted_data.upi),
         tactics |-> forensics.tactics,
         confidenceScore |-> session.scam_confidence],
     agentNotes |-> "Persona " \o session.persona.name
                    \o " engaged. Final State: " \o new_state
                    \o ". Fake Data Injected: "
                    \o (IF session.last_action = "payment_proof" THEN "True" ELSE "False")]

\* ai_reply of every trace of the loop
LoopReplies == {ai_reply_of(run) : run \in BackendRuns}

\* every ai_reply that can reach step 8
FinalReplies ==
    LoopReplies
    \cup {r \o " " \o a : r \in LoopReplies,
                          a \in UNION {FakeData[t].payment_proof \cup FakeData[t].otp : t \in Texts}}

\* messages_list of each of them, evaluated once
MessagesList == [r \in FinalReplies |-> messages_list(r)]

ignored_response ==
    [status |-> "ignored",
     scamDetected |-> FALSE,
     agentMessages |-> <<"Who is this?", "I think you have the wrong number.">>]

success_response(session, forensics, new_state, ai_reply) ==
    [status |-> "success",
     scamDetected |-> TRUE,
     engagementMetrics |->
        [state |-> new_state,
         confidence |-> session.scam_confidence,
         persona |-> session.persona.name,
         mood |-> session.persona.tone],
     extractedIntelligence |->
        [upiIds |-> Range(session.extracted_data.upi),
         tactics |-> forensics.tactics],
     agentMessages |-> MessagesList[ai_reply]]

\* advance with scam_confidence overwritten instead of maximised
advance_overwrite(session0, forensics) ==
    LET session2 ==
            [session0 EXCEPT
               !.messages_count = @ + 1,
               !.scam_confidence = forensics.confidence,
               !.extracted_data.upi = @ \o forensics.extracted.upi]
    IN  [session2 EXCEPT !.state = update_state(session2, forensics)]

\* advance with the payment handles replaced by those of the message
advance_replace_upi(session0, forensics) ==
    LET session2 ==
            [session0 EXCEPT
               !.messages_count = @ + 1,
               !.scam_confidence = Max(@, forensics.confidence),
               !.extracted_data.upi = forensics.extracted.upi]
    IN  [session2 EXCEPT !.state = update_state(session2, forensics)]

\* steps 2 to 4: the session after the bookkeeping and the transition
advance(session0, forensics) ==
    LET session2 ==
            [session0 EXCEPT
               !.messages_count = @ + 1,
               !.scam_confidence = Max(@, forensics.confidence),
               !.extracted_data.upi = @ \o forensics.extracted.upi]
    IN  [session2 EXCEPT !.state = update_state(session2, forensics)]

\* the pending reports after one more request was handled
Overlapped(tasks) ==
    [k \in 1..Len(tasks) |-> [tasks[k] EXCEPT !.overlap = @ + 1]]

\* steps 9 and 10: the report is scheduled, the answer built
finish(sessionId, forensics, new_state, injected, run) ==
    LET session4 == injected.session
        send == should_send_callback(session4, new_state)
        session5 == IF send THEN [session4 EXCEPT !.callback_sent = TRUE]
                    ELSE session4
    IN  /\ calls' = run
        /\ background_tasks' =
             IF send
             THEN Append(Overlapped(background_tasks),
                         [session_id |-> sessionId,
                          data |-> callback_data(sessionId, session4,
                                                 forensics, new_state),
                          overlap |-> 0])
             ELSE Overlapped(background_tasks)
        /\ session_store' = Put(session_store, sessionId, session5)
        /\ response' = success_response(session5, forensics, new_state,
                                        injected.ai_reply)
        /\ UNCHANGED callback_log

\* the caps of the model on what a session accumulates and on the overlap
WithinBounds(session) ==
    /\ \A k \in 1..Len(background_tasks) : background_tasks[k].overlap < MaxOverlap
    /\ session.messages_count <= MaxMessages
    /\ Len(session.extracted_data.upi) <= MaxUpi
    /\ session.otp_attempts <= MaxOtpAttempts

\* handle_honeypot with the gatekeeper looking at the confidence of the
\* message instead of that of the session
handle_honeypot_gate_on_message(sessionId, text, x_api_key, run) ==
    /\ request' = [sessionId |-> sessionId, text |-> text, x_api_key |-> x_api_key]
    /\ IF x_api_key # MY_SECRET_API_KEY
       THEN /\ response' = [status |-> "401", detail |-> "Unauthorized Access"]
            /\ calls' = << >>
            /\ UNCHANGED <<session_store, background_tasks, callback_log>>
       ELSE \E session0 \in get_session(session_store, sessionId) :
            \E session3 \in {advance(session0, Forensics[text])} :
            LET forensics == Forensics[text]
                new_state == session3.state
            IN  IF forensics.confidence < IgnoreThreshold
                THEN /\ WithinBounds(session3)
                     /\ session_store' = Put(session_store, sessionId, session3)
                     /\ response' = ignored_response
                     /\ calls' = << >>
                     /\ background_tasks' = Overlapped(background_tasks)
                     /\ UNCHANGED callback_log
                ELSE \E injected \in Inject(session3, new_state, text, ai_reply_of(run)) :
                     /\ WithinBounds(injected.session)
                     /\ finish(sessionId, forensics, new_state, injected, run)

\* POST /honeypot.  The coroutine has no await: it runs from its first
\* statement to its return without another request in between.
handle_honeypot(sessionId, text, x_api_key, run) ==
    /\ request' = [sessionId |-> sessionId, text |-> text, x_api_key |-> x_api_key]
    /\ IF x_api_key # MY_SECRET_API_KEY
       THEN /\ response' = [status |-> "401", detail |-> "Unauthorized Access"]
            /\ calls' = << >>
            /\ UNCHANGED <<session_store, background_tasks, callback_log>>
       ELSE \E session0 \in get_session(session_store, sessionId) :
            \E session3 \in {advance(session0, Forensics[text])} :
            LET forensics == Forensics[text]
                new_state == session3.state
            IN  IF session3.scam_confidence < IgnoreThreshold
                THEN /\ WithinBounds(session3)
                     /\ session_store' = Put(session_store, sessionId, session3)
                     /\ response' = ignored_response
                     /\ calls' = << >>
                     /\ background_tasks' = Overlapped(background_tasks)
                     /\ UNCHANGED callback_log
                ELSE \E injected \in Inject(session3, new_state, text, ai_reply_of(run)) :
                     /\ WithinBounds(injected.session)
                     /\ finish(sessionId, forensics, new_state, injected, run)

\* what the POST of the report can come to
PostOutcomes == {"200", "500", "Timeout", "ConnectionError"}

\* the line send_guvi_callback prints
callback_line(session_id, outcome) ==
    IF outcome = "200"
    THEN "[SUCCESS] Callback sent for Session: " \o session_id
    ELSE IF outcome = "Timeout"
    THEN "[TIMEOUT] GUVI API took too long for " \o session_id
    ELSE IF outcome = "ConnectionError"
    THEN "[ERROR] Callback failed: " \o outcome
    ELSE "[WARNING] GUVI API returned " \o outcome \o " for " \o session_id

\* a scheduled report runs: one POST, its outcome printed, nothing else
send_guvi_callback(k, outcome) ==
    /\ k \in 1..Len(background_tasks)
    /\ callback_log' = Append(callback_log,
                          [session_id |-> background_tasks[k].session_id,
                           line |-> callback_line(background_tasks[k].session_id, outcome)])
    /\ background_tasks' = [j \in 1..(Len(background_tasks) - 1) |->
                              IF j < k THEN background_tasks[j]
                              ELSE background_tasks[j + 1]]
    /\ UNCHANGED <<session_store, request, response, calls, in_flight, replay>>

\* the trace of the backend loop under Spec: the first model answers
MainRuns == {<<[model |-> models_to_try[1],
               outcome |-> [kind |-> "text", text |-> "Ayyo kanna || which UPI?"]]>>}

Authorized(texts, runs) ==
    \E sessionId \in SessionIds, text \in texts, run \in runs :
        /\ handle_honeypot(sessionId, text, MY_SECRET_API_KEY, run)
        /\ UNCHANGED <<in_flight, replay>>

Unauthorized ==
    \E sessionId \in SessionIds, text \in UnauthorizedTexts,
       x_api_key \in ApiKeys \ {MY_SECRET_API_KEY} :
        /\ handle_honeypot(sessionId, text, x_api_key, << >>)
        /\ UNCHANGED <<in_flight, replay>>

Callback ==
    \E k \in 1..Len(background_tasks), outcome \in PostOutcomes :
        send_guvi_callback(k, outcome)

Next ==
    \/ Authorized(Texts, MainRuns)
    \/ Unauthorized
    \/ Callback

Spec == Init /\ [][Next]_vars

\* The endpoint with every trace of the backend loop, on fewer texts
BackendSpecTexts ==
    {"urgent",
     "send otp 123456 now",
     "URGENT: your account will be blocked, pay Rs.5000 immediately or face legal action"}

NextBackend ==
    \/ Authorized(BackendSpecTexts, BackendRuns)
    \/ Unauthorized
    \/ Callback

SpecBackend == Init /\ [][NextBackend]_vars

(***************************************************************************)
(* Requests in flight: the event loop that runs handle_honeypot            *)
(***************************************************************************)
\* bound on the requests the event loop holds at a time
MaxInFlight == 2

\* the texts of the requests that are in flight together
ConcurrentTexts ==
    {"urgent",
     "pay",
     "send otp 123456 now",
     "transfer to ravi.k@okaxis"}

\* await_points with the backend call awaited
await_points_generate == {"generate"}

\* the places where the coroutine handle_honeypot gives control back to the
\* event loop before it returns: it has no await, and time.sleep and
\* generate_content block the loop
await_points == {}

\* what the caller reads of an answer: the state it reports, or its status
Answer(resp) ==
    IF resp.status = "success" THEN resp.engagementMetrics.state ELSE resp.status

\* every request held by the loop has been answered
AllAnswered == \A k \in 1..Len(in_flight) : in_flight[k].pc = "done"

\* a request arrives: a task for the coroutine is created.  base is
\* session_store as it was when the first of the requests held together
\* arrived
accept(sessionId, text) ==
    LET task(base) == [sessionId |-> sessionId, text |-> text, pc |-> "start",
                       new_state |-> None, answer |-> None, base |-> base]
    IN  /\ IF AllAnswered
           THEN in_flight' = <<task(session_store)>>
           ELSE /\ Len(in_flight) < MaxInFlight
                /\ in_flight' = Append(in_flight, task(in_flight[1].base))
        /\ UNCHANGED <<session_store, request, response, calls,
                       background_tasks, callback_log, replay>>

\* steps 1 to 5 of a coroutine that would give control back at the backend
\* call: the local new_state is kept, the session is the shared record
before_generate(k) ==
    LET task == in_flight[k]
    IN  \E session0 \in get_session(session_store, task.sessionId) :
        \E session3 \in {advance(session0, Forensics[task.text])} :
            /\ WithinBounds(session3)
            /\ session_store' = Put(session_store, task.sessionId, session3)
            /\ request' = [sessionId |-> task.sessionId, text |-> task.text,
                           x_api_key |-> MY_SECRET_API_KEY]
            /\ IF session3.scam_confidence < IgnoreThreshold
               THEN /\ response' = ignored_response
                    /\ calls' = << >>
                    /\ background_tasks' = Overlapped(background_tasks)
                    /\ in_flight' = [in_flight EXCEPT ![k].pc = "done",
                                                      ![k].new_state = session3.state,
                                                      ![k].answer = "ignored"]
               ELSE /\ UNCHANGED <<response, calls, background_tasks>>
                    /\ in_flight' = [in_flight EXCEPT ![k].pc = "generate",
                                                      ![k].new_state = session3.state]
            /\ UNCHANGED callback_log

\* steps 7 to 10 of such a coroutine, on the shared record as it is by then
after_generate(k, run) ==
    LET task == in_flight[k]
    IN  \E injected \in Inject(session_store[task.sessionId], task.new_state,
                               task.text, ai_reply_of(run)) :
            /\ WithinBounds(injected.session)
            /\ request' = [sessionId |-> task.sessionId, text |-> task.text,
                           x_api_key |-> MY_SECRET_API_KEY]
            /\ finish(task.sessionId, Forensics[task.text], task.new_state,
                      injected, run)
            /\ in_flight' = [in_flight EXCEPT ![k].pc = "done",
                                              ![k].answer = task.new_state]

\* the event loop runs a task up to its next await point or to its return
resume(k, run) ==
    LET task == in_flight[k]
    IN  /\ task.pc # "done"
        /\ UNCHANGED replay
        /\ IF "generate" \notin await_points
           THEN /\ handle_honeypot(task.sessionId, task.text, MY_SECRET_API_KEY, run)
                /\ in_flight' = [in_flight EXCEPT
                                   ![k].pc = "done",
                                   ![k].new_state = session_store'[task.sessionId].state,
                                   ![k].answer = Answer(response')]
           ELSE IF task.pc = "start"
           THEN before_generate(k)
           ELSE after_generate(k, run)

Accept ==
    \E sessionId \in SessionIds, text \in ConcurrentTexts : accept(sessionId, text)

Resume ==
    \E k \in 1..Len(in_flight), run \in MainRuns : resume(k, run)

\* the reports of SpecConcurrent are delivered
Delivered ==
    \E k \in 1..Len(background_tasks) : send_guvi_callback(k, "200")

NextConcurrent ==
    \/ Accept
    \/ Resume
    \/ Delivered

SpecConcurrent == Init /\ [][NextConcurrent]_vars

(***************************************************************************)
(* Several conversations: the endpoint with two session ids                *)
(***************************************************************************)
TwoSessionIds == {"s1", "s2"}

\* the texts sent to the two sessions
SessionTexts ==
    {"ok I paid, please confirm",
     "urgent",
     "pay",
     "transfer to ravi.k@okaxis"}

\* bound on the messages handled for each of the two sessions
MaxSessionMessages == 4

AuthorizedAny ==
    \E sessionId \in TwoSessionIds, text \in SessionTexts, run \in MainRuns :
        /\ sessionId \in DOMAIN session_store =>
              session_store[sessionId].messages_count < MaxSessionMessages
        /\ handle_honeypot(sessionId, text, MY_SECRET_API_KEY, run)
        /\ UNCHANGED <<in_flight, replay>>

NextSessions ==
    \/ AuthorizedAny
    \/ Unauthorized
    \/ Delivered

SpecSessions == Init /\ [][NextSessions]_vars

(***************************************************************************)
(* One conversation replayed to two sessions                               *)
(***************************************************************************)
\* bound on the length of the replayed conversation
MaxReplay == 4

\* the texts a replayed conversation is made of
ReplayTexts ==
    {"urgent",
     "send otp 123456 now",
     "transfer to ravi.k@okaxis"}

\* the traces of the backend loop under SpecReplay: the first model answers,
\* it answers with blanks, every model is rate limited
ReplayRuns ==
    {run \in BackendRuns :
        \/ run[1].outcome = [kind |-> "text", text |-> "Ayyo kanna || which UPI?"]
        \/ run[1].outcome = [kind |-> "text", text |-> " || "]
        \/ /\ Len(run) = Len(models_to_try)
           /\ \A i \in 1..Len(run) :
                 run[i].outcome = [kind |-> "raise", text |-> "429 RESOURCE_EXHAUSTED"]}

\* the number of messages handled for a session id so far
Position(store, session_id) ==
    IF session_id \in DOMAIN store THEN store[session_id].messages_count ELSE 0

\* a session is sent its next message of the conversation; a session that
\* has been sent all of it is sent any text, which extends the conversation,
\* and the state the session is left in is noted beside the text
replay_next(sessionId, text, run) ==
    LET k == Position(session_store, sessionId) + 1
    IN  /\ k <= MaxReplay
        /\ k <= Len(replay) => text = replay[k].text
        /\ handle_honeypot(sessionId, text, MY_SECRET_API_KEY, run)
        /\ replay' = IF k <= Len(replay)
                     THEN replay
                     ELSE Append(replay, [text |-> text,
                                          state |-> session_store'[sessionId].state,
                                          answer |-> Answer(response')])
        /\ UNCHANGED in_flight

Replay ==
    \E sessionId \in TwoSessionIds, text \in ReplayTexts, run \in ReplayRuns :
        replay_next(sessionId, text, run)

NextReplay ==
    \/ Replay
    \/ Delivered

SpecReplay == Init /\ [][NextReplay]_vars

(***************************************************************************)
(* The analyzer alone: analyze_scam on texts put together from words       *)
(***************************************************************************)
\* bound on the number of words of a text
MaxWords == 3

\* one word for each tactic and each entity, a word that only looks like a
\* credential request, a word that fires nothing
Words ==
    {"Urgent", "lottery", "police", "pay", "OTP", "pincode", "Rs 500",
     "ravi.k@okaxis", "hello"}

\* what stands between two words
Separators == {" ", ""}

\* the text analysed last grows by one word and analyze_scam is applied to
\* it; response holds what it returned
analyze(sep, word) ==
    LET words == IF response.status = "analyzed" THEN response.words ELSE 0
        text == IF words = 0 THEN word ELSE request.text \o sep \o word
    IN  /\ words < MaxWords
        /\ words = 0 => sep = ""
        /\ request' = [request EXCEPT !.text = text]
        /\ \E forensics \in {analyze_scam(text)} :
              response' = [status |-> "analyzed", words |-> words + 1,
                           forensics |-> forensics]
        /\ UNCHANGED <<session_store, calls, background_tasks, callback_log,
                       in_flight, replay>>

Analyze ==
    \E sep \in Separators, word \in Words : analyze(sep, word)

NextAnalyzer == Analyze

SpecAnalyzer == Init /\ [][NextAnalyzer]_vars

(***************************************************************************)
(* Properties                                                              *)
(***************************************************************************)
\* the session of id as the step found it: the stored record, or for an id
\* not yet seen the record get_session creates in the step
Before(id) ==
    IF id \in DOMAIN session_store
    THEN session_store[id]
    ELSE NewSession(session_store'[id].persona)

\* the step handled a message for the session of id (past the key check)
Handled(id) ==
    /\ id \in DOMAIN session_store'
    /\ session_store'[id].messages_count = Before(id).messages_count + 1

\* the fast-track rule applies to the message of the step
FastTrack(id) ==
    /\ has_money_talk(Forensics[request'.text])
    /\ session_store'[id].scam_confidence > MoneyThreshold

\* the answer carries a fake payment notification / a fake code
HasProof(resp) ==
    /\ resp.status = "success"
    /\ \E k \in 1..Len(resp.agentMessages) :
          StartsAt(resp.agentMessages[k], 1, "[FWD: SBI Alert] Rs.")
HasOtp(resp) ==
    /\ resp.status = "success"
    /\ \E k \in 1..Len(resp.agentMessages) :
          StartsAt(resp.agentMessages[k], 1, "Is this the code? ")

\* the last request was handled for a session (the key was right)
LastHandled ==
    /\ request.x_api_key = MY_SECRET_API_KEY
    /\ request.sessionId \in DOMAIN session_store

\* C1: scam_confidence of every session stays within [0,1] and never
\* decreases: a handled message makes it the maximum of its previous value
\* and the confidence of that message, any other step leaves it unchanged.
C1_ConfidenceIsRunningMax ==
    [][\A id \in DOMAIN session_store' :
          LET after == session_store'[id].scam_confidence
              before == Before(id).scam_confidence
          IN  /\ after >= 0 /\ after <= ConfidenceCap
              /\ after >= before
              /\ Handled(id) =>
                    after = Max(before, Forensics[request'.text].confidence)
              /\ ~Handled(id) => after = before]_vars

\* C1 witness: a message scored below the confidence the session already had
C1_Witness ==
    /\ LastHandled
    /\ response.status = "success"
    /\ session_store[request.sessionId].scam_confidence
          > Forensics[request.text].confidence

\* C2: a handled message with a money-demand signal, in a session whose
\* confidence updated with that message exceeds 0.6, leaves the session
\* HOOKED whatever its state was, and the answer reports HOOKED.
C2_FastTrackHooks ==
    [][\A id \in DOMAIN session_store' :
          (Handled(id) /\ FastTrack(id)) =>
              /\ session_store'[id].state = HOOKED
              /\ response'.engagementMetrics.state = HOOKED]_vars

\* C2 witness: the first message of a session took it from INIT to HOOKED
C2_Witness ==
    /\ LastHandled
    /\ session_store[request.sessionId].messages_count = 1
    /\ session_store[request.sessionId].state = HOOKED

\* the position of a state in the progression INIT, ENGAGING, HOOKED,
\* TRAPPED, STALLING
Stage(state) ==
    CASE state = INIT -> 1
      [] state = ENGAGING -> 2
      [] state = HOOKED -> 3
      [] state = TRAPPED -> 4
      [] state = STALLING -> 5
      [] state = EXIT -> 6

\* C3: no field of a session but persona is rolled back; in particular the
\* state of a session never moves to an earlier stage of the progression
\* (a session in TRAPPED or STALLING never returns to HOOKED).
C3_NeverRolledBack ==
    [][\A id \in DOMAIN session_store :
          LET before == session_store[id]
              after == session_store'[id]
          IN  /\ Stage(after.state) >= Stage(before.state)
              /\ after.messages_count >= before.messages_count
              /\ after.scam_confidence >= before.scam_confidence
              /\ after.otp_attempts >= before.otp_attempts
              /\ before.callback_sent => after.callback_sent
              /\ Len(after.extracted_data.upi) >= Len(before.extracted_data.upi)]_vars

\* C4: the state of a session changes to TRAPPED in a step exactly when the
\* step handles a message for it, finds it HOOKED with last_action
\* payment_proof, and the fast-track rule does not apply to the message; the
\* step that enters TRAPPED injects no payment proof.
C4_TrappedOnlyAfterProof ==
    [][\A id \in DOMAIN session_store' :
          LET before == Before(id)
              entered == session_store'[id].state = TRAPPED /\ before.state # TRAPPED
          IN  /\ entered <=> /\ Handled(id)
                             /\ before.state = HOOKED
                             /\ before.last_action = "payment_proof"
                             /\ ~FastTrack(id)
              /\ entered => ~HasProof(response')]_vars

\* C4 witness: a session that an earlier payment proof brought to TRAPPED
C4_Witness ==
    /\ LastHandled
    /\ session_store[request.sessionId].state = TRAPPED
    /\ response.status = "success"
    /\ response.engagementMetrics.state = TRAPPED
    /\ session_store[request.sessionId].last_action = "payment_proof"

\* C5: a message handled for a session in TRAPPED whose message_count,
\* counting that message, is greater than 6 leaves the session STALLING.
C5_TrappedStallsAfterSix ==
    [][\A id \in DOMAIN session_store :
          (/\ Handled(id)
           /\ session_store[id].state = TRAPPED
           /\ session_store'[id].messages_count > StallingCount)
          => session_store'[id].state = STALLING]_vars

\* C6 as stated: a handled message with credential-request vocabulary and
\* message_count (counting it) above 2 always gets a fake code: an otp
\* artifact in the reply, otp_attempts one more, last_action fake_otp,
\* whether or not the payment-proof trigger applies and whatever the state.
C6_OtpWheneverRequested ==
    [][\A id \in DOMAIN session_store' :
          (/\ Handled(id)
           /\ OtpTrigger[request'.text]
           /\ session_store'[id].messages_count > OtpCount)
          => /\ HasOtp(response')
             /\ session_store'[id].otp_attempts = Before(id).otp_attempts + 1
             /\ session_store'[id].last_action = "fake_otp"]_vars

\* the payment-proof trigger fires in the step
ProofTriggered(id) ==
    /\ session_store'[id].state = HOOKED
    /\ ScamTrigger[request'.text]

\* C6 amended: the fake code is injected when, besides, the turn is not
\* answered as ignored (the updated confidence is at least 0.4) and the
\* payment-proof trigger does not fire on it; when the payment-proof trigger
\* fires, no code is injected and otp_attempts is unchanged.
C6_OtpUnlessProofOrIgnored ==
    [][\A id \in DOMAIN session_store' :
          (/\ Handled(id)
           /\ OtpTrigger[request'.text]
           /\ session_store'[id].messages_count > OtpCount
           /\ session_store'[id].scam_confidence >= IgnoreThreshold)
          => IF ProofTriggered(id)
             THEN /\ ~HasOtp(response')
                  /\ session_store'[id].otp_attempts = Before(id).otp_attempts
                  /\ session_store'[id].last_action = "payment_proof"
             ELSE /\ HasOtp(response')
                  /\ session_store'[id].otp_attempts = Before(id).otp_attempts + 1
                  /\ session_store'[id].last_action = "fake_otp"]_vars

\* C6 witness: a fake code was sent in answer to a credential request
C6_Witness ==
    /\ LastHandled
    /\ OtpTrigger[request.text]
    /\ HasOtp(response)
    /\ session_store[request.sessionId].messages_count > OtpCount
    /\ session_store[request.sessionId].otp_attempts >= 1
    /\ session_store[request.sessionId].last_action = "fake_otp"

\* the scam-trigger words as the specification lists them
listed_trigger_words == <<"pay", "send", "transfer", "deposit", "fee", "scan", "qr">>
ListedTrigger == [t \in Texts |-> AnyIn(listed_trigger_words, Lower(t))]

\* C7 as stated: a handled message with one of pay, send, transfer, deposit,
\* fee, scan, qr that leaves the session HOOKED gets a payment proof in the
\* reply and sets last_action to payment_proof.
C7_ProofOnListedWords ==
    [][\A id \in DOMAIN session_store' :
          (/\ Handled(id)
           /\ ListedTrigger[request'.text]
           /\ session_store'[id].state = HOOKED)
          => /\ HasProof(response')
             /\ session_store'[id].last_action = "payment_proof"]_vars

\* C7 amended: the same for the words pay, send, transfer, deposit, scan.
C7_ProofOnTriggerWords ==
    [][\A id \in DOMAIN session_store' :
          (/\ Handled(id)
           /\ ScamTrigger[request'.text]
           /\ session_store'[id].state = HOOKED)
          => /\ HasProof(response')
             /\ session_store'[id].last_action = "payment_proof"]_vars

\* C7 witness: a trigger word on a turn that ended HOOKED, proof injected
C7_Witness ==
    /\ LastHandled
    /\ ScamTrigger[request.text]
    /\ session_store[request.sessionId].state = HOOKED
    /\ HasProof(response)
    /\ session_store[request.sessionId].last_action = "payment_proof"

\* the reports of a session: those scheduled and not yet run, those run
ReportsFor(id) ==
    Cardinality({k \in 1..Len(background_tasks) : background_tasks[k].session_id = id})
    + Cardinality({k \in 1..Len(callback_log) : callback_log[k].session_id = id})

\* C8: the report of a session is scheduled at most once: callback_sent
\* never goes back to false, a session has one report exactly when
\* callback_sent is true, a report is scheduled only by a turn that found
\* callback_sent false, and a report that runs, whatever comes of its POST,
\* is not scheduled again and changes neither the session nor any answer.
C8_ReportAtMostOnce ==
    [][/\ \A id \in DOMAIN session_store' :
            /\ Before(id).callback_sent => session_store'[id].callback_sent
            /\ ReportsFor(id)' = IF session_store'[id].callback_sent THEN 1 ELSE 0
            /\ ReportsFor(id)' > ReportsFor(id) =>
                  Handled(id) /\ ~Before(id).callback_sent
       /\ Len(callback_log') > Len(callback_log) =>
            /\ Len(callback_log') = Len(callback_log) + 1
            /\ Len(background_tasks') = Len(background_tasks) - 1
            /\ UNCHANGED <<session_store, request, response, calls>>]_vars

\* C8 witness: the report of a session failed or timed out and is not
\* pending again
C8_Witness ==
    /\ LastHandled
    /\ session_store[request.sessionId].callback_sent
    /\ session_store[request.sessionId].messages_count > CallbackCount
    /\ background_tasks = << >>
    /\ \E k \in 1..Len(callback_log) :
          /\ callback_log[k].session_id = request.sessionId
          /\ ~StartsAt(callback_log[k].line, 1, "[SUCCESS]")

\* the call raised / raised a rate-limit error / returned nothing usable
Raised(call) == call.outcome.kind = "raise"
RateLimited(call) == Raised(call) /\ Contains(call.outcome.text, "429")
FailedOrEmpty(call) == Raised(call) \/ call.outcome.text = ""

IsPrefix(a, b) == Len(a) <= Len(b) /\ \A k \in 1..Len(a) : a[k] = b[k]

\* the answer to the last request went through reply generation
Generated == LastHandled /\ response.status = "success"

RawReply ==
    LET last == calls[Len(calls)]
    IN  IF FailedOrEmpty(last) THEN fallback_reply ELSE last.outcome.text

C10_AgentMessagesNeverEmpty ==
    response.status = "success" =>
        /\ response.agentMessages # << >>
        /\ \A k \in 1..Len(response.agentMessages) :
              LET m == response.agentMessages[k]
              IN  m # "" /\ Strip(m) = m /\ ~Contains(m, "||")

\* one message handled from start to return: the session it leaves and what
\* its answer reports
Turn(session0, text) ==
    LET forensics == Forensics[text]
        session3 == advance(session0, forensics)
        new_state == session3.state
    IN  IF session3.scam_confidence < IgnoreThreshold
        THEN {[session |-> session3, answer |-> "ignored"]}
        ELSE {[session |-> IF should_send_callback(i.session, new_state)
                           THEN [i.session EXCEPT !.callback_sent = TRUE]
                           ELSE i.session,
               answer |-> new_state] :
                 i \in Inject(session3, new_state, text, fallback_reply)}

\* the messages of texts handled one after the other from session
RECURSIVE SerialFrom(_, _)
SerialFrom(session, texts) ==
    IF texts = << >>
    THEN {[session |-> session, answers |-> << >>]}
    ELSE UNION {{[session |-> o.session, answers |-> <<t.answer>> \o o.answers] :
                    o \in SerialFrom(t.session, Tail(texts))} :
                t \in Turn(session, Head(texts))}

Orders(n) == {p \in [1..n -> 1..n] : \A i, j \in 1..n : p[i] = p[j] => i = j}

\* the requests held by the loop are all for one session and all answered
BatchAnswered ==
    /\ in_flight # << >>
    /\ AllAnswered
    /\ \A k \in 1..Len(in_flight) : in_flight[k].sessionId = in_flight[1].sessionId

\* the session and the answers are those of the requests handled one after
\* the other in the order p
SerialIn(p) ==
    LET id == in_flight[1].sessionId
        texts == [i \in 1..Len(in_flight) |-> in_flight[p[i]].text]
    IN  \E session0 \in get_session(in_flight[1].base, id) :
        \E o \in SerialFrom(session0, texts) :
            /\ o.session = session_store[id]
            /\ \A i \in 1..Len(in_flight) : o.answers[i] = in_flight[p[i]].answer

\* C11: requests for one session that are in flight together do not
\* interleave: once all are answered, the session record and the states the
\* answers report are those of the messages handled one after the other in
\* some order.
C11_InFlightIsSerial ==
    BatchAnswered => \E p \in Orders(Len(in_flight)) : SerialIn(p)

\* C11 witness: two requests were in flight together and were handled in the
\* order opposite to their arrival, with an outcome the order of arrival
\* does not give
C11_Witness ==
    /\ BatchAnswered
    /\ Len(in_flight) = 2
    /\ in_flight[1].base = in_flight[2].base
    /\ ~SerialIn([i \in 1..2 |-> i])
    /\ SerialIn([i \in 1..2 |-> 3 - i])

\* the step handled a message for id with the right key
HandledFor(id) ==
    /\ request'.sessionId = id
    /\ request'.x_api_key = MY_SECRET_API_KEY
    /\ response'.status \in {"ignored", "success"}

\* C12: session_store holds one record per session id; a record appears
\* only in the step that handles the first message for its id, as the new
\* record (INIT, message_count 0, scam_confidence 0, last_action unset,
\* callback_sent false, any persona) after that one message; a record is
\* never removed, re-created or reset (its persona stays, its message_count
\* and scam_confidence do not go back); and a step changes no record but
\* that of the session id of the request it handles.
C12_OneRecordPerSession ==
    [][/\ \A id \in DOMAIN session_store :
            /\ id \in DOMAIN session_store'
            /\ session_store'[id].persona = session_store[id].persona
            /\ session_store'[id].messages_count >= session_store[id].messages_count
            /\ session_store'[id].messages_count >= 1
            /\ session_store'[id].scam_confidence >= session_store[id].scam_confidence
            /\ session_store'[id] # session_store[id] =>
                  /\ HandledFor(id)
                  /\ session_store'[id].messages_count
                        = session_store[id].messages_count + 1
       /\ \A id \in DOMAIN session_store' \ DOMAIN session_store :
            /\ HandledFor(id)
            /\ \E p \in get_random_persona :
                  session_store'[id] \in
                     {t.session : t \in Turn(NewSession(p), request'.text)}
       /\ \A p \in get_random_persona :
            LET new == NewSession(p)
            IN  /\ new.state = INIT
                /\ new.messages_count = 0
                /\ new.scam_confidence = 0
                /\ new.last_action = None
                /\ ~new.callback_sent]_vars

\* C12 witness: a message was handled for s2, a session with another
\* persona than s1, while s1 was TRAPPED with several messages behind it
C12_Witness ==
    /\ LastHandled
    /\ request.sessionId = "s2"
    /\ "s1" \in DOMAIN session_store
    /\ session_store["s1"].state = TRAPPED
    /\ session_store["s1"].messages_count > 1
    /\ session_store["s1"].persona # session_store["s2"].persona
    /\ session_store["s2"].messages_count > 1

\* C13: the states a session goes through are determined by the messages
\* it is sent: a fresh session that is sent a conversation another fresh
\* session was sent before it is left by each message in the state that
\* message left the other in, and is answered with the same state, whatever
\* the personas, the generated artifacts and the results of the backend.
C13_SameMessagesSameStates ==
    [][\A id \in TwoSessionIds :
          LET k == Position(session_store, id) + 1
          IN  (Handled(id) /\ k <= Len(replay)) =>
                 /\ request'.text = replay[k].text
                 /\ session_store'[id].state = replay[k].state
                 /\ Answer(response') = replay[k].answer]_vars

\* C13 witness: two sessions with different personas were sent the same
\* four messages, the second of them answered with the fallback reply, and
\* both are TRAPPED
C13_Witness ==
    /\ Len(replay) = MaxReplay
    /\ TwoSessionIds \subseteq DOMAIN session_store
    /\ \A id \in TwoSessionIds :
          /\ session_store[id].messages_count = MaxReplay
          /\ session_store[id].state = TRAPPED
    /\ session_store["s1"].persona # session_store["s2"].persona
    /\ Len(calls) = Len(models_to_try)

\* the weight of a tactic, as listed
TacticWeight(tactic) ==
    CASE tactic = "Urgency" -> 300
      [] tactic = "Greed" -> 400
      [] tactic = "Fear" -> 500
      [] tactic = "Financial Demand" -> 500
      [] tactic = "Credential Harvesting" -> 400

\* 0.1 plus the weights of the tactics of the list, added in its order in
\* double precision / in decimal
RECURSIVE TacticSum(_, _)
TacticSum(tactics, n) ==
    IF n = 0 THEN 100
    ELSE FAdd(TacticSum(tactics, n - 1), TacticWeight(tactics[n]))
RECURSIVE DecimalSum(_, _)
DecimalSum(tactics, n) ==
    IF n = 0 THEN 100
    ELSE DecimalSum(tactics, n - 1) + TacticWeight(tactics[n])

\* a payment handle or an amount was extracted
HasEntity(forensics) ==
    forensics.extracted.upi # << >> \/ forensics.extracted.amount # << >>

\* the confidence the listed weights give: the clamped sum, the additions
\* done in double precision in the order the tactics are listed, the bonus
\* last
ListedConfidence(forensics) ==
    LET sum == TacticSum(forensics.tactics, Len(forensics.tactics))
    IN  Min(ConfidenceCap, IF HasEntity(forensics) THEN FAdd(sum, 300) ELSE sum)
DecimalConfidence(forensics) ==
    LET sum == DecimalSum(forensics.tactics, Len(forensics.tactics))
    IN  Min(ConfidenceCap, IF HasEntity(forensics) THEN sum + 300 ELSE sum)

\* C14: the confidence analyze_scam returns is min(1.0, 0.1 + the weights
\* of the tactics it lists + 0.3 if it extracted a payment handle or an
\* amount), the sum taken in double precision (so within one rounding of
\* the decimal sum); it lies in [0,1]; it is 0.1 when nothing fires; no
\* tactic is listed twice; Credential Harvesting is listed exactly when a
\* credential request was extracted; and a text that grows so that no
\* tactic and no entity is lost does not lose confidence, and gains some,
\* below the clamp, when a tactic is added.
C14_ConfidenceIsClampedSum ==
    [][response'.status = "analyzed" =>
          LET new == response'.forensics
              fired(f) == Range(f.tactics)
          IN  /\ new.confidence = ListedConfidence(new)
              /\ new.confidence \in {DecimalConfidence(new), DecimalConfidence(new) - 1}
              /\ new.confidence >= 0 /\ new.confidence <= 1000
              /\ (new.tactics = << >> /\ ~HasEntity(new)) => new.confidence = 100
              /\ Cardinality(fired(new)) = Len(new.tactics)
              /\ ("Credential Harvesting" \in fired(new))
                    <=> new.extracted.otp_request # << >>
              /\ response.status = "analyzed" =>
                    LET old == response.forensics
                        kept == /\ fired(old) \subseteq fired(new)
                                /\ HasEntity(old) => HasEntity(new)
                    IN  /\ kept => new.confidence >= old.confidence
                        /\ (kept /\ fired(new) # fired(old)
                                 /\ old.confidence < ConfidenceCap)
                              => new.confidence > old.confidence]_vars

\* C14 witness: a text with a credential request, another tactic and an
\* entity, whose sum is above the clamp only with the bonus
C14_Witness ==
    /\ response.status = "analyzed"
    /\ Len(response.forensics.tactics) = 2
    /\ HasEntity(response.forensics)
    /\ "Credential Harvesting" \in Range(response.forensics.tactics)
    /\ DecimalSum(response.forensics.tactics, 2) < ConfidenceCap
    /\ response.forensics.confidence = ConfidenceCap

\* the message of the second scenario
Scenario2 ==
    "URGENT: your account will be blocked, pay Rs.5000 immediately or face legal action"

\* C15: the message of the second scenario, handled as the first message of
\* a session, is answered with tactics that include Urgency, Financial
\* Demand and Fear, with confidence 1.0, and with the state HOOKED, the
\* session going from INIT to HOOKED.
C15_Scenario2 ==
    (/\ LastHandled
     /\ request.text = Scenario2
     /\ session_store[request.sessionId].messages_count = 1)
    => /\ response.status = "success"
       /\ {"Urgency", "Financial Demand", "Fear"}
             \subseteq Range(response.extractedIntelligence.tactics)
       /\ response.engagementMetrics.confidence = ConfidenceCap
       /\ response.engagementMetrics.state = HOOKED
       /\ session_store[request.sessionId].state = HOOKED

\* C16: the state of every session, and the state every answer reports, is
\* one of INIT, ENGAGING, HOOKED, TRAPPED, STALLING: never EXIT.  (That
\* STALLING is reached from a fresh session is C16_Witness.)
C16_NeverExit ==
    /\ \A id \in DOMAIN session_store :
          session_store[id].state \in {INIT, ENGAGING, HOOKED, TRAPPED, STALLING}
    /\ response.status = "success" =>
          response.engagementMetrics.state \in {INIT, ENGAGING, HOOKED, TRAPPED, STALLING}

\* C16 witness: a session that started fresh is STALLING
C16_Witness ==
    /\ LastHandled
    /\ session_store[request.sessionId].state = STALLING
    /\ response.status = "success"
    /\ response.engagementMetrics.state = STALLING
    /\ session_store[request.sessionId].messages_count > StallingCount

\* the report scheduled by the step, if any
Scheduled ==
    IF Len(background_tasks') > Len(background_tasks)
    THEN {background_tasks'[Len(background_tasks')]}
    ELSE {}

\* C17: the payment handles of a session are only appended to: a handled
\* message, answered as ignored or not, leaves the handles held before
\* followed by those extracted from it, any other step leaves them as they
\* are; the upiIds of the answer and of the report scheduled are the
\* distinct values held after the message.
C17_UpiAppendOnly ==
    [][\A id \in DOMAIN session_store' :
          LET before == Before(id).extracted_data.upi
              after == session_store'[id].extracted_data.upi
          IN  /\ IsPrefix(before, after)
              /\ Handled(id) =>
                    /\ after = before \o Forensics[request'.text].extracted.upi
                    /\ response'.status = "success" =>
                          response'.extractedIntelligence.upiIds = Range(after)
                    /\ \A task \in Scheduled :
                          task.data.extractedIntelligence.upiIds = Range(after)
              /\ ~Handled(id) => after = before]_vars

\* C17 witness: a handle extracted twice is held twice, given once in the
\* answer and once in a report scheduled after the second time
C17_Witness ==
    /\ LastHandled
    /\ Len(session_store[request.sessionId].extracted_data.upi) = 2
    /\ response.status = "success"
    /\ Cardinality(response.extractedIntelligence.upiIds) = 1
    /\ \E k \in 1..Len(background_tasks) :
          /\ background_tasks[k].data.totalMessagesExchanged >= 2
          /\ Cardinality(background_tasks[k].data.extractedIntelligence.upiIds) = 1

\* C18: a session that is not in INIT has scam_confidence above 0.6; a
\* handled message that leaves scam_confidence at 0.6 or below leaves the
\* session in INIT; and a message with a money-demand signal handled in
\* ENGAGING falls under the fast-track rule, which leaves the session HOOKED.
C18_LeavesInitAboveThreshold ==
    [][\A id \in DOMAIN session_store' :
          /\ session_store'[id].state # INIT =>
                session_store'[id].scam_confidence > 600
          /\ (Handled(id) /\ session_store'[id].scam_confidence <= 600) =>
                /\ Before(id).state = INIT
                /\ session_store'[id].state = INIT
          /\ (/\ Handled(id)
              /\ Before(id).state = ENGAGING
              /\ has_money_talk(Forensics[request'.text])) =>
                /\ FastTrack(id)
                /\ session_store'[id].state = HOOKED]_vars

\* C18 witness: a message that only fires Financial Demand, with a money
\* demand, left a session of several messages in INIT at exactly 0.6
C18_Witness ==
    /\ LastHandled
    /\ request.text = "pay"
    /\ Forensics[request.text].tactics = <<"Financial Demand">>
    /\ session_store[request.sessionId].messages_count > 1
    /\ session_store[request.sessionId].scam_confidence = 600
    /\ session_store[request.sessionId].state = INIT
    /\ response.status = "success"
    /\ response.engagementMetrics.state = INIT

\* C19: a handled message is answered as ignored (scamDetected false, the
\* fixed two messages) exactly when scam_confidence, updated with it, is
\* below 0.4; such a turn calls no backend, injects nothing, schedules no
\* report and leaves state (INIT), last_action, otp_attempts and
\* callback_sent as they were, with message_count one more; and a session
\* whose scam_confidence has reached 0.4, as it has after any answer that is
\* not ignored, is never answered as ignored.
C19_IgnoredBelowThreshold ==
    [][\A id \in DOMAIN session_store' :
          Handled(id) =>
             LET before == Before(id)
                 after == session_store'[id]
             IN  /\ response'.status \in {"ignored", "success"}
                 /\ response'.status = "ignored" <=> after.scam_confidence < 400
                 /\ response'.status = "success" => after.scam_confidence >= 400
                 /\ before.scam_confidence >= 400 => response'.status = "success"
                 /\ response'.status = "ignored" =>
                       /\ response' = ignored_response
                       /\ ~response'.scamDetected
                       /\ calls' = << >>
                       /\ Scheduled = {}
                       /\ before.state = INIT
                       /\ after = [before EXCEPT
                                     !.messages_count = @ + 1,
                                     !.scam_confidence = after.scam_confidence,
                                     !.extracted_data = after.extracted_data]]_vars

\* C19 witness: the third message of a session, one with the word pin in
\* it, was answered as ignored and no code was sent
C19_Witness ==
    /\ LastHandled
    /\ response.status = "ignored"
    /\ OtpTrigger[request.text]
    /\ session_store[request.sessionId].messages_count > OtpCount
    /\ session_store[request.sessionId].otp_attempts = 0
    /\ session_store[request.sessionId].last_action = None
    /\ session_store[request.sessionId].state = INIT

\* C20: after any handled message a session with scam_confidence above 0.8
\* and message_count above 5 has callback_sent true; callback_sent becomes
\* true, and one report is scheduled, on exactly the turns that find it
\* false and end with scam_confidence above 0.8 and either message_count
\* above 5 or the state TRAPPED.
C20_ReportedBySixthMessage ==
    [][\A id \in DOMAIN session_store' :
          LET before == Before(id)
              after == session_store'[id]
              due == /\ Handled(id)
                     /\ ~before.callback_sent
                     /\ after.scam_confidence > 800
                     /\ (after.messages_count > 5 \/ after.state = TRAPPED)
          IN  /\ (after.scam_confidence > 800 /\ after.messages_count > 5)
                    => after.callback_sent
              /\ (after.callback_sent /\ ~before.callback_sent) <=> due
              /\ due <=> \E task \in Scheduled :
                            /\ task.session_id = id
                            /\ task.data.totalMessagesExchanged = after.messages_count
                            /\ task.data.extractedIntelligence.confidenceScore
                                  = after.scam_confidence]_vars

\* C20 witness: a session that was never TRAPPED got its report on a turn
\* after the sixth, the first turn on which its confidence was above 0.8
C20_Witness ==
    /\ LastHandled
    /\ session_store[request.sessionId].callback_sent
    /\ session_store[request.sessionId].state \in {INIT, ENGAGING, HOOKED}
    /\ Forensics[request.text].confidence > 800
    /\ \E k \in 1..Len(background_tasks) :
          /\ background_tasks[k].overlap = 0
          /\ background_tasks[k].data.totalMessagesExchanged > 6
          /\ background_tasks[k].data.totalMessagesExchanged
                = session_store[request.sessionId].messages_count

====
